---- MODULE Spec2Model ----
(***************************************************************************)
(* A model of unifiedprocessor.py: the run driver (__main__), one run of   *)
(* unified_processor per year (line count, sampling, the lockstep row      *)
(* loop, the two remote lookups, the three sinks, the post-processing).    *)
(*                                                                         *)
(* Strings the code only compares with "" are TLA+ strings; the href the   *)
(* code strips a prefix from is a sequence of path segments.  A file is a  *)
(* sequence of cells, "x" for the bytes of a line and "\n" for a newline.  *)
(***************************************************************************)
EXTENDS Integers, Sequences, FiniteSets, TLC

\* ------------------------------------------------------------- bounds
\* most data rows of an input file
MaxRows == 3
\* largest requested sample size (args.samples)
MaxSamples == 3
\* the request log of a row stops counting PDF-location requests here
MaxAttempts == 2
\* most years of a multi-year invocation, and the most data rows of one of
\* its files
MaxYears == 2
YearRows == 2
\* longest file and largest buffer of a call of fast_line_count that is
\* followed buffer by buffer
MaxFileLen == 4
MaxBuf == 3

\* ------------------------------------------------------------- constants
\* args.startyear (default) and the last year of the invocation
StartYear == 2012
EndYear == StartYear

\* buffer size of fast_line_count
BUFSIZE == 8192 * 1024

\* the prefix unified_processor strips from the href
FTP_PREFIX == <<"ftp://ftp.ncbi.nlm.nih.gov", "pub", "pmc">>

\* header of the report
header == <<"Year", "UPW", "PMC", "NoPubMed", "NoPDF", "Total">>

\* ------------------------------------------------------------- inputs
\* the sample sizes requested of an invocation over several years
YearSamples == {0, 1}

\* values of the three columns the code reads (row[0], row[8], row[10])
PmidValues == {"", "123"}
PmcidValues == {"", "PMC1"}
DoiValues == {"", "10.1/a"}
RowValues == [pmid : PmidValues, pmcid : PmcidValues, doi : DoiValues]
NoRow == [pmid |-> "", pmcid |-> "", doi |-> ""]

\* hrefs the PDF-location service may answer with
Hrefs == { FTP_PREFIX \o <<"foo", "bar.pdf">>,
           <<"https://example.org", "pub", "pmc", "baz.pdf">>,
           <<"ftp://ftp.ncbi.nlm.nih.gov", "pub">> }

\* parsed bodies of the metadata service: a dict is the set of its keys
UpwBodies == { {"doi", "title"}, {"error", "message"}, {} }

\* parsed documents of the PDF-location service
OaError == [OA |-> [error |-> "idIsNotOpenAccess"]]
OaLink(h) == [OA |-> [records |-> [record |-> [link |-> [href |-> h]]]]]
OaNoLink == [OA |-> [records |-> [record |-> [id |-> "PMC1"]]]]
OaDocs == {OaError, OaNoLink} \cup {OaLink(h) : h \in Hrefs}
NoDoc == [OA |-> [none |-> ""]]

\* the file with a header line and r data lines, the last line terminated
\* by a newline or not
RECURSIVE Lines(_)
Lines(n) == IF n = 0 THEN <<>> ELSE <<"x", "\n">> \o Lines(n - 1)
MkFile(r, terminated) ==
    IF terminated THEN Lines(r + 1) ELSE Lines(r) \o <<"x">>

\* ------------------------------------------------------------- helpers
\* buffer.count(b"\n")
RECURSIVE CountNewlines(_)
CountNewlines(buffer) ==
    IF buffer = <<>> THEN 0
    ELSE (IF Head(buffer) = "\n" THEN 1 ELSE 0) + CountNewlines(Tail(buffer))

Min(a, b) == IF a < b THEN a ELSE b

\* the read loop of fast_line_count over buffers of bufsize cells
RECURSIVE ReadLoop(_, _, _)
ReadLoop(f, offset, bufsize) ==
    LET buffer == SubSeq(f, offset + 1, Min(Len(f), offset + bufsize))
    IN IF buffer = <<>> THEN 0
       ELSE CountNewlines(buffer) + ReadLoop(f, offset + Len(buffer), bufsize)

fast_line_count(f, has_header) ==
    LET n == ReadLoop(f, 0, BUFSIZE)
    IN IF has_header THEN n - 1 ELSE n

\* the number of rows csv.reader yields: one per line of the file
NumRows(f) ==
    CountNewlines(f) + (IF f # <<>> /\ f[Len(f)] # "\n" THEN 1 ELSE 0)

\* the clamp without its "- 1"
ClampSamples_NoMinusOne(k, n) == IF k < n THEN k ELSE n

\* samplesize if samplesize < line_count else (line_count - 1)
ClampSamples(k, n) == IF k < n THEN k ELSE n - 1

\* range(1, line_count + 2)
Population(n) == 1 .. (n + 1)

\* random.sample(population, k): any k distinct elements, in any order
Sample(pop, k) ==
    { s \in [1 .. k -> pop] : \A i, j \in 1 .. k : i # j => s[i] # s[j] }

\* the selection left in the order it was drawn
Sort_None(s) == s

\* list.sort()
RECURSIVE Insert(_, _)
Insert(s, e) ==
    IF s = <<>> THEN <<e>>
    ELSE IF e <= Head(s) THEN <<e>> \o s
    ELSE <<Head(s)>> \o Insert(Tail(s), e)
RECURSIVE Sort(_)
Sort(s) == IF s = <<>> THEN <<>> ELSE Insert(Sort(Tail(s)), Head(s))

\* upw_request without the check for the error key
upw_request_NoErrorCheck(body) == body

\* upw_request after the transport: {} when the body has an error key
upw_request(body) == IF "error" \in body THEN {} ELSE body

\* a slice s[len(p):] in place of removeprefix
removeprefix_Slice(s, p) == SubSeq(s, Len(p) + 1, Len(s))

\* str.removeprefix
removeprefix(s, p) ==
    IF Len(s) >= Len(p) /\ SubSeq(s, 1, Len(p)) = p
    THEN SubSeq(s, Len(p) + 1, Len(s))
    ELSE s

\* datadict["OA"]["records"]["record"]["link"]["@href"] raises KeyError
\* when a key of the chain is missing
HasError(d) == "error" \in DOMAIN d.OA
LinkKeyError(d) ==
    IF "records" \notin DOMAIN d.OA THEN TRUE
    ELSE IF "record" \notin DOMAIN d.OA.records THEN TRUE
    ELSE IF "link" \notin DOMAIN d.OA.records.record THEN TRUE
    ELSE "href" \notin DOMAIN d.OA.records.record.link
LinkHref(d) == d.OA.records.record.link.href

\* the five-field manifest line
outputline(path, pmcid, pmid) ==
    << removeprefix(path, FTP_PREFIX), "CitationPlaceholder", pmcid,
       "PMID:" \o pmid, "LicensePlaceholder" >>

ZeroCount == [upw |-> 0, pmc |-> 0, discard |-> 0, no_pdf |-> 0, total |-> 0]
Incr(c, key) == [c EXCEPT ![key] = @ + 1]

\* ------------------------------------------------------------- state
VARIABLES
    pc,               \* where the program is: main, loop, upw, pmc,
                      \* pmc_except, post, exit, aborted
    err,              \* the exception that aborted the program, or "none"
    samples,          \* args.samples
    endyear,          \* args.endyear
    y,                \* the year of the driver's loop
    report,           \* rows written to the report file
    file,             \* the input file of the current run
    line_count, samplesize, selection,
    position, sample_position,
    reader,           \* rows csvreader has yielded so far
    count,
    row,              \* pmid, pmcid, doi of the row being processed
    response,         \* parsed body of the last metadata response
    jsondata, datadict,
    jsonl, txt, dump, \* records written to the three sinks
    fs,               \* files of the current run that exist
    handles,          \* file objects that are open
    calls,            \* requests issued for the row being processed
    counter           \* a call of fast_line_count, buffer by buffer

vars == << pc, err, samples, endyear, y, report, file, line_count,
           samplesize, selection, position, sample_position, reader, count,
           row, response, jsondata, datadict, jsonl, txt, dump, fs, handles,
           calls, counter >>

mainVars == << pc, err, samples, endyear, y, report, file, line_count,
               samplesize, selection, position, sample_position, reader,
               count, row, response, jsondata, datadict, jsonl, txt, dump,
               fs, handles, calls >>
driverVars == << samples, endyear, y, report >>
sampleVars == << file, line_count, samplesize, selection >>
sinkVars == << jsonl, txt, dump, fs >>
respVars == << response, jsondata, datadict >>

NoCalls == [upw |-> 0, pmc |-> 0, attempts |-> 0, key |-> "none"]

\* the file objects of a run: the input and the three sinks
RunHandles == {"csv", "jsonl", "dump", "txt"}

\* no call of fast_line_count is being followed
NoCounter ==
    [pc |-> "idle", file |-> <<>>, bufsize |-> 0, has_header |-> FALSE,
     offset |-> 0, line_count |-> 0]

\* the state at the driver's loop, the report open with its header written
InitRun ==
    /\ pc = "main"
    /\ err = "none"
    /\ y = StartYear
    /\ report = << header >>
    /\ file = <<>>
    /\ line_count = 0
    /\ samplesize = 0
    /\ selection = <<>>
    /\ position = 0
    /\ sample_position = 0
    /\ reader = 0
    /\ count = ZeroCount
    /\ row = NoRow
    /\ response = {}
    /\ jsondata = {}
    /\ datadict = NoDoc
    /\ jsonl = <<>>
    /\ txt = <<>>
    /\ dump = <<>>
    /\ fs = {}
    /\ handles = {"report"}
    /\ calls = NoCalls

Init ==
    /\ samples \in 0 .. MaxSamples
    /\ endyear = EndYear
    /\ InitRun
    /\ counter = NoCounter

\* an invocation over one year or more
InitYears ==
    /\ samples \in YearSamples
    /\ endyear \in StartYear .. (StartYear + MaxYears - 1)
    /\ InitRun
    /\ counter = NoCounter

\* ------------------------------------------------------------- a run
\* unified_processor up to the first iteration of the row loop: the line
\* count, the clamp, the sample, the sort, the sinks opened, the
\* DatePlaceholder line, the counters reset
StartRunOf(maxrows) ==
    /\ pc = "main"
    /\ y <= endyear
    /\ \E r \in 0 .. maxrows, terminated \in BOOLEAN :
         LET f == MkFile(r, terminated)
             n == fast_line_count(f, TRUE)
             k == ClampSamples(samples, n)
         IN /\ k >= 0
            /\ k <= Cardinality(Population(n))
            /\ file' = f
            /\ line_count' = n
            /\ samplesize' = k
            /\ \E s \in Sample(Population(n), k) : selection' = Sort(s)
    /\ jsonl' = <<>>
    /\ dump' = <<>>
    /\ txt' = << << "DatePlaceholder" >> >>
    /\ fs' = {"jsonl", "txt", "dump"}
    /\ count' = ZeroCount
    /\ position' = 0
    /\ sample_position' = 0
    /\ reader' = 0
    /\ row' = NoRow
    /\ response' = {}
    /\ jsondata' = {}
    /\ datadict' = NoDoc
    /\ calls' = NoCalls
    /\ pc' = "loop"
    /\ handles' = handles \cup RunHandles
    /\ UNCHANGED << counter, err, driverVars >>

StartRun == StartRunOf(MaxRows)
StartRunYears == StartRunOf(YearRows)

\* random.sample raises ValueError for a negative sample size: the run
\* aborts before any sink is opened
StartValueErrorOf(maxrows) ==
    /\ pc = "main"
    /\ y <= endyear
    /\ \E r \in 0 .. maxrows, terminated \in BOOLEAN :
         LET f == MkFile(r, terminated)
             n == fast_line_count(f, TRUE)
             k == ClampSamples(samples, n)
         IN /\ (k < 0 \/ k > Cardinality(Population(n)))
            /\ file' = f
            /\ line_count' = n
            /\ samplesize' = k
    /\ pc' = "aborted"
    /\ err' = "ValueError"
    /\ handles' = {}
    /\ UNCHANGED << counter, driverVars, selection, position, sample_position, reader,
                    count, row, respVars, sinkVars, calls >>

StartValueError == StartValueErrorOf(MaxRows)
StartValueErrorYears == StartValueErrorOf(YearRows)

\* ------------------------------------------------------------- the row loop
\* csvreader has no further row: the for loop ends
LoopEnd ==
    /\ pc = "loop"
    /\ reader = NumRows(file)
    /\ pc' = "post"
    /\ handles' = handles \ RunHandles
    /\ UNCHANGED << counter, err, driverVars, sampleVars, position, sample_position,
                    reader, count, row, respVars, sinkVars, calls >>

\* Break with the test placed after position += 1
Break_AfterPosition ==
    /\ pc = "loop"
    /\ reader < NumRows(file)
    /\ sample_position = samplesize
    /\ reader' = reader + 1
    /\ position' = position + 1
    /\ pc' = "post"
    /\ handles' = handles \ RunHandles
    /\ UNCHANGED << counter, err, driverVars, sampleVars, sample_position,
                    count, row, respVars, sinkVars, calls >>

\* if sample_position == samplesize: break
Break ==
    /\ pc = "loop"
    /\ reader < NumRows(file)
    /\ sample_position = samplesize
    /\ reader' = reader + 1
    /\ pc' = "post"
    /\ handles' = handles \ RunHandles
    /\ UNCHANGED << counter, err, driverVars, sampleVars, position, sample_position,
                    count, row, respVars, sinkVars, calls >>

\* if position == 0: the header is skipped
SkipHeader ==
    /\ pc = "loop"
    /\ reader < NumRows(file)
    /\ sample_position # samplesize
    /\ position = 0
    /\ reader' = reader + 1
    /\ position' = position + 1
    /\ UNCHANGED << handles, counter, pc, err, driverVars, sampleVars, sample_position, count,
                    row, respVars, sinkVars, calls >>

\* if position != selection[sample_position]: a row out of the sample
SkipRow ==
    /\ pc = "loop"
    /\ reader < NumRows(file)
    /\ sample_position # samplesize
    /\ position # 0
    /\ position # selection[sample_position + 1]
    /\ reader' = reader + 1
    /\ position' = position + 1
    /\ UNCHANGED << handles, counter, pc, err, driverVars, sampleVars, sample_position, count,
                    row, respVars, sinkVars, calls >>

\* the loop reaches count["total"] += 1 with the row of the sample
Sampled ==
    /\ pc = "loop"
    /\ reader < NumRows(file)
    /\ sample_position # samplesize
    /\ position # 0
    /\ position = selection[sample_position + 1]

\* Advance without the sample_position += 1
Advance_KeepsSample ==
    /\ sample_position' = sample_position
    /\ position' = position + 1
    /\ pc' = "loop"

\* sample_position += 1; position += 1; continue
Advance ==
    /\ sample_position' = sample_position + 1
    /\ position' = position + 1
    /\ pc' = "loop"

\* a sampled row with a doi: the metadata request is issued
RowUpw ==
    /\ Sampled
    /\ \E r \in RowValues : r.doi # "" /\ row' = r
    /\ reader' = reader + 1
    /\ count' = Incr(count, "total")
    /\ calls' = [NoCalls EXCEPT !.upw = 1]
    /\ pc' = "upw"
    /\ UNCHANGED << handles, counter, err, driverVars, sampleVars, position, sample_position,
                    respVars, sinkVars >>

\* RowDiscard testing pmcid where the code tests pmid: a row with a pmcid
\* goes on to the PDF-location lookup
RowDiscard_ByPmcid ==
    /\ Sampled
    /\ \E r \in RowValues : r.doi = "" /\ r.pmid = "" /\ row' = r
    /\ reader' = reader + 1
    /\ IF row'.pmcid = ""
       THEN /\ count' = Incr(Incr(count, "total"), "discard")
            /\ calls' = NoCalls
            /\ Advance
       ELSE /\ count' = Incr(count, "total")
            /\ calls' = [NoCalls EXCEPT !.pmc = 1, !.attempts = 1,
                                        !.key = row'.pmcid]
            /\ pc' = "pmc"
            /\ UNCHANGED << position, sample_position >>
    /\ UNCHANGED << handles, counter, err, driverVars, sampleVars, respVars, sinkVars >>

\* RowDiscard without the count["discard"] += 1
RowDiscard_NoBucket ==
    /\ Sampled
    /\ \E r \in RowValues : r.doi = "" /\ r.pmid = "" /\ row' = r
    /\ reader' = reader + 1
    /\ count' = Incr(count, "total")
    /\ calls' = NoCalls
    /\ Advance
    /\ UNCHANGED << handles, counter, err, driverVars, sampleVars, respVars, sinkVars >>

\* a sampled row without doi and without pmid is discarded
RowDiscard ==
    /\ Sampled
    /\ \E r \in RowValues : r.doi = "" /\ r.pmid = "" /\ row' = r
    /\ reader' = reader + 1
    /\ count' = Incr(Incr(count, "total"), "discard")
    /\ calls' = NoCalls
    /\ Advance
    /\ UNCHANGED << handles, counter, err, driverVars, sampleVars, respVars, sinkVars >>

\* a sampled row without doi and with a pmid: the PDF-location lookup
RowPmc ==
    /\ Sampled
    /\ \E r \in RowValues : r.doi = "" /\ r.pmid # "" /\ row' = r
    /\ reader' = reader + 1
    /\ count' = Incr(count, "total")
    /\ calls' = [NoCalls EXCEPT !.pmc = 1, !.attempts = 1, !.key = row'.pmcid]
    /\ pc' = "pmc"
    /\ UNCHANGED << handles, counter, err, driverVars, sampleVars, position, sample_position,
                    respVars, sinkVars >>

\* the post-processing with the two emptiness tests exchanged
PostFiles_Exchanged(files, c) ==
    (((files \cup {"gz"}) \ {"jsonl"})
        \ (IF c.no_pdf = 0 THEN {"txt"} ELSE {}))
        \ (IF c.pmc = 0 THEN {"dump"} ELSE {})

\* the files the post-processing leaves: the jsonl is compressed and
\* removed, the manifest and the dump are removed when empty
PostFiles(files, c) ==
    (((files \cup {"gz"}) \ {"jsonl"})
        \ (IF c.pmc = 0 THEN {"txt"} ELSE {}))
        \ (IF c.no_pdf = 0 THEN {"dump"} ELSE {})

\* ------------------------------------------------------------- upw_request
\* UpwRaise caught: the row goes on as if no record had been found
UpwRaise_Swallowed ==
    /\ pc = "upw"
    /\ response' = {}
    /\ jsondata' = {}
    /\ count' = Incr(count, "discard")
    /\ Advance
    /\ UNCHANGED << handles, counter, err, driverVars, sampleVars, reader, row,
                    datadict, sinkVars, calls >>

\* UpwRaise with the post-processing run on the way out
UpwRaise_PostProcessed ==
    /\ pc = "upw"
    /\ \E e \in {"MaxRetryError", "JSONDecodeError"} : err' = e
    /\ pc' = "aborted"
    /\ handles' = {}
    /\ fs' = PostFiles(fs, count)
    /\ UNCHANGED << counter, driverVars, sampleVars, position, sample_position,
                    reader, count, row, respVars, jsonl, txt, dump, calls >>

\* http.request or json.loads raises: nothing catches it, the with block
\* closes the sinks and the program ends
UpwRaise ==
    /\ pc = "upw"
    /\ \E e \in {"MaxRetryError", "JSONDecodeError"} : err' = e
    /\ pc' = "aborted"
    /\ handles' = {}
    /\ UNCHANGED << counter, driverVars, sampleVars, position, sample_position, reader,
                    count, row, respVars, sinkVars, calls >>

\* UpwHit without its continue: the row goes on to the PDF-location lookup
UpwHit_NoContinue ==
    /\ pc = "upw"
    /\ \E body \in UpwBodies : response' = body
    /\ jsondata' = upw_request(response')
    /\ jsondata' # {}
    /\ jsonl' = Append(jsonl, jsondata')
    /\ count' = Incr(count, "upw")
    /\ calls' = [calls EXCEPT !.pmc = 1, !.attempts = 1, !.key = row.pmcid]
    /\ pc' = "pmc"
    /\ UNCHANGED << handles, counter, err, driverVars, sampleVars, position, sample_position,
                    reader, row, datadict, txt, dump, fs >>

\* a non-empty record: written to the metadata sink, the row is done
UpwHit ==
    /\ pc = "upw"
    /\ \E body \in UpwBodies : response' = body
    /\ jsondata' = upw_request(response')
    /\ jsondata' # {}
    /\ jsonl' = Append(jsonl, jsondata')
    /\ count' = Incr(count, "upw")
    /\ Advance
    /\ UNCHANGED << handles, counter, err, driverVars, sampleVars, reader, row, datadict, txt,
                    dump, fs, calls >>

\* no record and no pmid: discarded
UpwMissDiscard ==
    /\ pc = "upw"
    /\ \E body \in UpwBodies : response' = body
    /\ jsondata' = upw_request(response')
    /\ jsondata' = {}
    /\ row.pmid = ""
    /\ count' = Incr(count, "discard")
    /\ Advance
    /\ UNCHANGED << handles, counter, err, driverVars, sampleVars, reader, row, datadict,
                    sinkVars, calls >>

\* UpwMissPmc with the lookup keyed by the pmid
UpwMissPmc_KeyedByPmid ==
    /\ pc = "upw"
    /\ \E body \in UpwBodies : response' = body
    /\ jsondata' = upw_request(response')
    /\ jsondata' = {}
    /\ row.pmid # ""
    /\ calls' = [calls EXCEPT !.pmc = 1, !.attempts = 1, !.key = row.pmid]
    /\ pc' = "pmc"
    /\ UNCHANGED << handles, counter, err, driverVars, sampleVars, position, sample_position,
                    reader, count, row, datadict, sinkVars >>

\* no record and a pmid: the PDF-location lookup
UpwMissPmc ==
    /\ pc = "upw"
    /\ \E body \in UpwBodies : response' = body
    /\ jsondata' = upw_request(response')
    /\ jsondata' = {}
    /\ row.pmid # ""
    /\ calls' = [calls EXCEPT !.pmc = 1, !.attempts = 1, !.key = row.pmcid]
    /\ pc' = "pmc"
    /\ UNCHANGED << handles, counter, err, driverVars, sampleVars, position, sample_position,
                    reader, count, row, datadict, sinkVars >>

\* ------------------------------------------------------------- pmc_request
\* http.request raises MaxRetryError: except MaxRetryError: pass
PmcExcept ==
    /\ pc = "pmc"
    /\ pc' = "pmc_except"
    /\ UNCHANGED << handles, counter, err, driverVars, sampleVars, position, sample_position,
                    reader, count, row, respVars, sinkVars, calls >>

\* a retry loop that gives up and raises after MaxAttempts requests
PmcRetry_Capped ==
    /\ pc = "pmc_except"
    /\ IF calls.attempts < MaxAttempts
       THEN /\ calls' = [calls EXCEPT !.attempts = @ + 1]
            /\ pc' = "pmc"
            /\ UNCHANGED << err, handles >>
       ELSE /\ pc' = "aborted"
            /\ err' = "MaxRetryError"
            /\ handles' = {}
            /\ UNCHANGED calls
    /\ UNCHANGED << counter, driverVars, sampleVars, position, sample_position, reader,
                    count, row, respVars, sinkVars >>

\* a retry that issues the row's lookups again from the metadata request
PmcRetry_FromUpw ==
    /\ pc = "pmc_except"
    /\ calls' = [calls EXCEPT !.attempts = Min(@ + 1, MaxAttempts)]
    /\ pc' = IF row.doi # "" THEN "upw" ELSE "pmc"
    /\ UNCHANGED << handles, counter, err, driverVars, sampleVars, position, sample_position,
                    reader, count, row, respVars, sinkVars >>

\* while retry: retry is still True, the same request is issued again
PmcRetry ==
    /\ pc = "pmc_except"
    /\ calls' = [calls EXCEPT !.attempts = Min(@ + 1, MaxAttempts)]
    /\ pc' = "pmc"
    /\ UNCHANGED << handles, counter, err, driverVars, sampleVars, position, sample_position,
                    reader, count, row, respVars, sinkVars >>

\* xmltodict.parse raises on a body that is not XML: not caught
PmcRaise ==
    /\ pc = "pmc"
    /\ err' = "ExpatError"
    /\ pc' = "aborted"
    /\ handles' = {}
    /\ UNCHANGED << counter, driverVars, sampleVars, position, sample_position, reader,
                    count, row, respVars, sinkVars, calls >>

\* PmcNoPdf with the two columns of the dump record swapped
PmcNoPdf_Swapped ==
    /\ pc = "pmc"
    /\ \E d \in OaDocs : datadict' = d
    /\ HasError(datadict')
    /\ count' = Incr(count, "no_pdf")
    /\ dump' = Append(dump, << row.pmcid, row.doi >>)
    /\ Advance
    /\ UNCHANGED << handles, counter, err, driverVars, sampleVars, reader, row, response, jsondata, jsonl,
                    txt, fs, calls >>

\* the document has an error element: path stays None
PmcNoPdf ==
    /\ pc = "pmc"
    /\ \E d \in OaDocs : datadict' = d
    /\ HasError(datadict')
    /\ count' = Incr(count, "no_pdf")
    /\ dump' = Append(dump, << row.doi, row.pmcid >>)
    /\ Advance
    /\ UNCHANGED << handles, counter, err, driverVars, sampleVars, reader, row, response, jsondata, jsonl,
                    txt, fs, calls >>

\* no error element and no link: the subscript chain raises KeyError
PmcKeyError ==
    /\ pc = "pmc"
    /\ \E d \in OaDocs : datadict' = d
    /\ ~HasError(datadict')
    /\ LinkKeyError(datadict')
    /\ err' = "KeyError"
    /\ pc' = "aborted"
    /\ handles' = {}
    /\ UNCHANGED << counter, driverVars, sampleVars, position, sample_position, reader,
                    count, row, response, jsondata, sinkVars, calls >>

\* a link: the manifest line is written
PmcHit ==
    /\ pc = "pmc"
    /\ \E d \in OaDocs : datadict' = d
    /\ ~HasError(datadict')
    /\ ~LinkKeyError(datadict')
    /\ txt' = Append(txt, outputline(LinkHref(datadict'), row.pmcid, row.pmid))
    /\ count' = Incr(count, "pmc")
    /\ Advance
    /\ UNCHANGED << handles, counter, err, driverVars, sampleVars, reader, row, response, jsondata, jsonl,
                    dump, fs, calls >>

\* ------------------------------------------------------------- after the loop
\* count.values() with discard and no_pdf exchanged
returnlist_Exchanged(c) == << c.upw, c.pmc, c.no_pdf, c.discard, c.total >>

\* count.values()
returnlist(c) == << c.upw, c.pmc, c.discard, c.no_pdf, c.total >>

\* post-processing, return, and the driver's report row
Finish ==
    /\ pc = "post"
    /\ fs' = PostFiles(fs, count)
    /\ report' = Append(report, << y >> \o returnlist(count))
    /\ y' = y + 1
    /\ pc' = "main"
    /\ UNCHANGED << handles, counter, err, samples, endyear, sampleVars, position, sample_position,
                    reader, count, row, respVars, jsonl, txt, dump, calls >>

\* the driver's loop over the years ends
MainExit ==
    /\ pc = "main"
    /\ y > endyear
    /\ pc' = "exit"
    /\ handles' = {}
    /\ UNCHANGED << counter, err, driverVars, sampleVars, position, sample_position,
                    reader, count, row, respVars, sinkVars, calls >>

Next ==
    \/ StartRun \/ StartValueError
    \/ LoopEnd \/ Break \/ SkipHeader \/ SkipRow
    \/ RowUpw \/ RowDiscard \/ RowPmc
    \/ UpwRaise \/ UpwHit \/ UpwMissDiscard \/ UpwMissPmc
    \/ PmcExcept \/ PmcRetry \/ PmcRaise \/ PmcNoPdf \/ PmcKeyError \/ PmcHit
    \/ Finish \/ MainExit

Spec == Init /\ [][Next]_vars

\* the same program over the years StartYear .. endyear
NextYears ==
    \/ StartRunYears \/ StartValueErrorYears
    \/ LoopEnd \/ Break \/ SkipHeader \/ SkipRow
    \/ RowUpw \/ RowDiscard \/ RowPmc
    \/ UpwRaise \/ UpwHit \/ UpwMissDiscard \/ UpwMissPmc
    \/ PmcExcept \/ PmcRetry \/ PmcRaise \/ PmcNoPdf \/ PmcKeyError \/ PmcHit
    \/ Finish \/ MainExit

SpecYears == InitYears /\ [][NextYears]_vars

\* ------------------------------------------------------------- properties
Buckets(c) == c.upw + c.pmc + c.discard + c.no_pdf

\* the loop is between two rows, or the run has returned
BetweenRows == pc \in {"loop", "post", "main", "exit"}

\* a selection has been drawn for the current run
Selected ==
    \/ pc \in {"loop", "upw", "pmc", "pmc_except", "post"}
    \/ pc \in {"main", "exit"} /\ y > StartYear
    \/ pc = "aborted" /\ err # "ValueError"

\* C1: whenever the row loop is between two rows, and after the run has
\* returned, total equals upw + pmc + discard + no_pdf
C1_CounterPartition == BetweenRows => count.total = Buckets(count)

\* a run has returned after rows fell into two different buckets
C1_Witness ==
    /\ pc = "main"
    /\ y > StartYear
    /\ count.upw >= 1
    /\ count.discard >= 1
    /\ count.total = 2

\* C2 as claimed: a completed run over a header and N data rows with a
\* requested sample size K < N has processed exactly K rows
C2_ExactlyK ==
    (pc = "post" /\ samples < NumRows(file) - 1 /\ samples < line_count)
        => Buckets(count) = samples

\* C3: for a line count N >= 1 the selector does not fail, and the selection
\* has K elements if K < N and N - 1 otherwise, all within 1 .. N + 1, in
\* strictly ascending order
C3_Selection ==
    /\ line_count >= 1 => err # "ValueError"
    /\ Selected =>
         /\ Len(selection) =
              (IF samples < line_count THEN samples ELSE line_count - 1)
         /\ \A i \in 1 .. Len(selection) : selection[i] \in 1 .. line_count + 1
         /\ \A i \in 1 .. Len(selection) - 1 : selection[i] < selection[i + 1]

\* a clamped selection that holds the position N + 1
C3_Witness ==
    /\ pc = "loop"
    /\ samples >= line_count
    /\ Len(selection) = line_count - 1
    /\ Len(selection) >= 2
    /\ selection[Len(selection)] = line_count + 1

\* a step out of the metadata request that did not raise
UpwReturns == pc = "upw" /\ pc' # "upw" /\ err' = "none"

\* a step out of the PDF-location request that did not raise in pmc_request
PmcReturns ==
    pc = "pmc" /\ pc' \notin {"pmc", "pmc_except"} /\ err' # "ExpatError"

\* both cursors advance by one and the loop goes on
Advanced ==
    /\ position' = position + 1
    /\ sample_position' = sample_position + 1
    /\ pc' = "loop"

\* C4: when the metadata lookup of a row with a doi returns a non-empty
\* record, the record is appended to the metadata sink, upw alone is
\* incremented, and no PDF-location request is made for the row
C4_MetadataHitTerminal ==
    [][ (UpwReturns /\ jsondata' # {}) =>
          /\ row.doi # ""
          /\ jsonl' = Append(jsonl, jsondata')
          /\ count' = [count EXCEPT !.upw = @ + 1]
          /\ txt' = txt /\ dump' = dump
          /\ calls.pmc = 0 /\ calls'.pmc = 0
          /\ Advanced ]_vars

\* a row is done after a metadata hit, with no PDF-location request
C4_Witness ==
    /\ pc = "loop"
    /\ row.doi # ""
    /\ calls = [NoCalls EXCEPT !.upw = 1]
    /\ jsondata = {"doi", "title"}
    /\ Len(jsonl) >= 1
    /\ jsonl[Len(jsonl)] = jsondata
    /\ count.upw >= 1

\* C5: a sampled row with empty doi and empty pmid increments discard (and
\* total), writes to no sink and issues no request
C5_MissingIdentifiers ==
    [][ (Sampled /\ reader' = reader + 1 /\ row'.doi = "" /\ row'.pmid = "") =>
          /\ count' = [count EXCEPT !.discard = @ + 1, !.total = @ + 1]
          /\ jsonl' = jsonl /\ txt' = txt /\ dump' = dump
          /\ calls' = NoCalls
          /\ Advanced ]_vars

\* a row with a pmcid but neither doi nor pmid has been discarded
C5_Witness ==
    /\ pc = "loop"
    /\ count.total >= 1
    /\ row = [pmid |-> "", pmcid |-> "PMC1", doi |-> ""]
    /\ count.discard >= 1
    /\ calls = NoCalls

\* C6: when the PDF-location document has an error element, no_pdf alone is
\* incremented, the dump sink receives the one record (doi, pmcid) and the
\* manifest is not written
C6_PdfError ==
    [][ (PmcReturns /\ HasError(datadict')) =>
          /\ count' = [count EXCEPT !.no_pdf = @ + 1]
          /\ dump' = Append(dump, << row.doi, row.pmcid >>)
          /\ txt' = txt /\ jsonl' = jsonl
          /\ Advanced ]_vars

\* a row with a doi reached the PDF-location lookup and got an error document
C6_Witness ==
    /\ pc = "loop"
    /\ row.doi # "" /\ row.pmcid = ""
    /\ calls.pmc = 1
    /\ datadict = OaError
    /\ Len(dump) >= 1
    /\ dump[Len(dump)] = << "10.1/a", "" >>
    /\ count.no_pdf >= 1

\* C7 as claimed: a document without error element and without link is
\* "no path found": no_pdf is incremented, (doi, pmcid) is appended to the
\* dump sink and the loop goes on
C7_NoLinkIsNoPdf ==
    [][ (PmcReturns /\ ~HasError(datadict') /\ LinkKeyError(datadict')) =>
          /\ count' = [count EXCEPT !.no_pdf = @ + 1]
          /\ dump' = Append(dump, << row.doi, row.pmcid >>)
          /\ Advanced ]_vars

IsPrefix(p, s) == Len(p) <= Len(s) /\ \A i \in 1 .. Len(p) : s[i] = p[i]

\* C8: for a row with empty doi and a pmid whose PDF-location document
\* holds a link href P, one line is appended to the manifest: P without
\* the ftp prefix, CitationPlaceholder, pmcid, PMID:pmid, LicensePlaceholder;
\* pmc alone is incremented; the other two sinks are not written
C8_ManifestLine ==
    [][ (PmcReturns /\ ~HasError(datadict') /\ ~LinkKeyError(datadict')
           /\ row.doi = "") =>
          /\ row.pmid # ""
          /\ Len(txt') = Len(txt) + 1
          /\ SubSeq(txt', 1, Len(txt)) = txt
          /\ LET line == txt'[Len(txt')]
                 P == LinkHref(datadict')
             IN /\ Len(line) = 5
                /\ IF IsPrefix(FTP_PREFIX, P)
                   THEN FTP_PREFIX \o line[1] = P
                   ELSE line[1] = P
                /\ line[2] = "CitationPlaceholder"
                /\ line[3] = row.pmcid
                /\ line[4] = "PMID:" \o row.pmid
                /\ line[5] = "LicensePlaceholder"
          /\ count' = [count EXCEPT !.pmc = @ + 1]
          /\ jsonl' = jsonl /\ dump' = dump
          /\ Advanced ]_vars

\* the manifest line of the href ftp://ftp.ncbi.nlm.nih.gov/pub/pmc/foo/bar.pdf
C8_Witness ==
    /\ pc = "loop"
    /\ row = [pmid |-> "123", pmcid |-> "PMC1", doi |-> ""]
    /\ datadict = OaLink(FTP_PREFIX \o << "foo", "bar.pdf" >>)
    /\ Len(txt) = 2
    /\ txt[2] = << << "foo", "bar.pdf" >>, "CitationPlaceholder", "PMC1",
                   "PMID:123", "LicensePlaceholder" >>
    /\ count.pmc = 1

\* what follows an empty metadata result: discard without pmid, the
\* PDF-location lookup otherwise
NextBranch ==
    IF row.pmid = ""
    THEN count' = [count EXCEPT !.discard = @ + 1] /\ Advanced
    ELSE pc' = "pmc" /\ calls'.pmc = 1 /\ count' = count

\* C9 as claimed: when the metadata request fails in the transport or
\* returns an error body, the run does not abort and the row goes on to
\* the next branch
C9_FailuresNonFatal ==
    [][ (pc = "upw"
           /\ (err' = "MaxRetryError" \/ (UpwReturns /\ "error" \in response')))
          => (pc' # "aborted" /\ NextBranch) ]_vars

\* C9 amended: when the metadata request returns a body with an error key,
\* the result is empty, nothing is written to the metadata sink, the run
\* does not abort and the row goes on to the next branch
C9_ErrorBodyNonFatal ==
    [][ (UpwReturns /\ "error" \in response') =>
          /\ jsondata' = {}
          /\ jsonl' = jsonl
          /\ pc' # "aborted"
          /\ NextBranch ]_vars

\* after an error body the row is at the PDF-location lookup
C9_Witness ==
    /\ pc = "pmc"
    /\ "error" \in response
    /\ jsondata = {}
    /\ row.doi # "" /\ row.pmid # ""
    /\ calls = [upw |-> 1, pmc |-> 1, attempts |-> 1, key |-> row.pmcid]

\* C10: while pmc_request runs, a failed request is always possible and is
\* always followed by the same request again, changing nothing but the
\* request log; MaxRetryError never reaches the caller; and the function
\* returns only with one of the parsed documents
C10_RetryUntilParsed ==
    /\ [](pc = "pmc" => ENABLED PmcExcept)
    /\ [](pc = "pmc_except" => ENABLED PmcRetry)
    /\ [][ (pc \in {"pmc", "pmc_except"}) =>
             /\ err' # "MaxRetryError"
             /\ (pc = "pmc_except") => (pc' = "pmc")
             /\ (pc' \in {"pmc", "pmc_except"}) =>
                  /\ calls'.attempts >= calls.attempts
                  /\ calls'.upw = calls.upw /\ calls'.pmc = calls.pmc
                  /\ UNCHANGED << err, driverVars, sampleVars, position,
                                  sample_position, reader, count, row,
                                  respVars, sinkVars >>
             /\ PmcReturns => (datadict' \in OaDocs) ]_vars

\* pmc_request has returned a document after failed requests
C10_Witness ==
    /\ pc = "loop"
    /\ calls.pmc = 1
    /\ calls.attempts >= 2
    /\ datadict = OaError
    /\ count.no_pdf = 1

\* ------------------------------------------------------------- termination
\* the program keeps running: a step that can be taken is taken, and every
\* request returns with a response or a failure
SpecFair == Spec /\ WF_vars(Next)

Terminated == pc \in {"exit", "aborted"}

\* C11 as claimed: the run terminates whenever every request returns
C11_Terminates == <>Terminated

\* C11 amended: the run terminates unless it stays in the retry loop of one
\* pmc_request for ever
C11_TerminatesOrRetries ==
    <>Terminated \/ <>[](pc \in {"pmc", "pmc_except"})

\* a run has completed although a PDF-location request had failed
C11_Witness ==
    /\ pc = "exit"
    /\ calls.attempts >= 2
    /\ count.total >= 1

\* ------------------------------------------------------------- after a run
\* the last run has returned and no other run has started
Completed == pc \in {"main", "exit"} /\ y > StartYear

\* C12: after a completed run the manifest file exists exactly when a
\* manifest line was written, and then holds the DatePlaceholder line and
\* pmc manifest lines; the dump file exists exactly when a dump record was
\* written, and then holds no_pdf records
C12_DeleteIfEmpty ==
    Completed =>
        /\ Len(txt) = count.pmc + 1
        /\ txt[1] = << "DatePlaceholder" >>
        /\ \A i \in 2 .. Len(txt) : Len(txt[i]) = 5
        /\ "txt" \in fs <=> Len(txt) > 1
        /\ Len(dump) = count.no_pdf
        /\ "dump" \in fs <=> Len(dump) > 0

\* a completed run that kept its manifest and removed its empty dump
C12_Witness ==
    /\ Completed
    /\ count.pmc >= 1
    /\ count.no_pdf = 0
    /\ "txt" \in fs
    /\ "dump" \notin fs

\* ------------------------------------------------------------- the report
\* C13: the report holds the header and one row per completed year in
\* ascending year order; the row written for a year is that year, then upw,
\* pmc, discard, no_pdf and total of that year's run, which count the
\* records of that run's sinks and the rows that run processed; when every
\* year's run has completed there is one row for every year
C13_AggregateReport ==
    /\ report[1] = << "Year", "UPW", "PMC", "NoPubMed", "NoPDF", "Total" >>
    /\ Len(report) = 1 + (y - StartYear)
    /\ \A i \in 2 .. Len(report) :
         /\ Len(report[i]) = 6
         /\ report[i][1] = StartYear + (i - 2)
         /\ report[i][6] = report[i][2] + report[i][3] + report[i][4]
                              + report[i][5]
    /\ Completed =>
         /\ report[Len(report)] =
              << y - 1, count.upw, count.pmc, count.discard, count.no_pdf,
                 count.total >>
         /\ count.upw = Len(jsonl)
         /\ count.pmc = Len(txt) - 1
         /\ count.no_pdf = Len(dump)
         /\ count.total = sample_position
    /\ pc = "exit" => Len(report) = 1 + (endyear - StartYear + 1)

\* two years have completed with different counters
C13_Witness ==
    /\ pc = "exit"
    /\ endyear = StartYear + 1
    /\ Len(report) = 3
    /\ report[2] = << StartYear, 0, 0, 1, 0, 1 >>
    /\ report[3] = << StartYear + 1, 0, 0, 0, 1, 1 >>

\* a fatal error was raised while a sampled row was being processed
AbortedInRow == pc = "aborted" /\ err # "ValueError"

\* C20: after a fatal error in a row the sinks are closed, the three files
\* of the run exist as they were opened (no compressed file, the manifest
\* and the dump kept whatever they hold), the report holds the header and
\* the rows of the years completed before and no row for the year of the
\* abort, and the program takes no further step
C20_AbortUnfinished ==
    AbortedInRow =>
        /\ handles = {}
        /\ fs = {"jsonl", "txt", "dump"}
        /\ y <= endyear
        /\ Len(report) = 1 + (y - StartYear)
        /\ \A i \in 2 .. Len(report) : report[i][1] < y
        /\ ~ENABLED Next
        /\ ~ENABLED NextYears

\* the second year aborted with an empty manifest and an empty dump, after
\* the first year had completed
C20_Witness ==
    /\ AbortedInRow
    /\ y = StartYear + 1
    /\ Len(report) = 2
    /\ Len(txt) = 1
    /\ dump = <<>>
    /\ count.total = 1

\* ------------------------------------------------------------- fast_line_count
\* every file of at most n cells
FilesUpTo(n) == UNION { [1 .. k -> {"x", "\n"}] : k \in 0 .. n }

\* a call of fast_line_count on any file, with any buffer size
InitCount ==
    /\ samples = 0
    /\ endyear = EndYear
    /\ InitRun
    /\ counter \in [pc : {"read"}, file : FilesUpTo(MaxFileLen),
                    bufsize : 1 .. MaxBuf, has_header : BOOLEAN,
                    offset : {0}, line_count : {0}]

\* file_buffer.read(bufsize) at the current offset
NextBuffer ==
    SubSeq(counter.file, counter.offset + 1,
           Min(Len(counter.file), counter.offset + counter.bufsize))

\* a buffer that counts one more when it does not end with a newline
ReadBuffer_CountsLines ==
    /\ counter.pc = "read"
    /\ NextBuffer # <<>>
    /\ counter' = [counter EXCEPT
         !.line_count = @ + CountNewlines(NextBuffer)
              + (IF NextBuffer[Len(NextBuffer)] # "\n" THEN 1 ELSE 0),
         !.offset = @ + Len(NextBuffer)]
    /\ UNCHANGED mainVars

\* line_count += buffer.count(b"\n")
ReadBuffer ==
    /\ counter.pc = "read"
    /\ NextBuffer # <<>>
    /\ counter' = [counter EXCEPT
         !.line_count = @ + CountNewlines(NextBuffer),
         !.offset = @ + Len(NextBuffer)]
    /\ UNCHANGED mainVars

\* if not buffer: break; the header is subtracted; return line_count
ReadEnd ==
    /\ counter.pc = "read"
    /\ NextBuffer = <<>>
    /\ counter' = [counter EXCEPT
         !.line_count = IF counter.has_header THEN @ - 1 ELSE @,
         !.pc = "done"]
    /\ UNCHANGED mainVars

NextCount == ReadBuffer \/ ReadEnd

SpecCount == InitCount /\ [][NextCount]_vars

\* the lines a full read of the file splits it into
RECURSIVE NaiveLines(_)
NaiveLines(f) ==
    IF f = <<>> THEN 0
    ELSE IF \A i \in 1 .. Len(f) : f[i] # "\n" THEN 1
    ELSE LET k == CHOOSE i \in 1 .. Len(f) :
                      f[i] = "\n" /\ \A j \in 1 .. i - 1 : f[j] # "\n"
         IN 1 + NaiveLines(SubSeq(f, k + 1, Len(f)))

HeaderLine == IF counter.has_header THEN 1 ELSE 0

\* the last line of the file has no newline
Unterminated(f) == f # <<>> /\ f[Len(f)] # "\n"

\* C14 as claimed: fast_line_count returns the naive line count of the file
\* (less one with has_header) for every file and every buffer size
C14_SameAsNaive ==
    counter.pc = "done" =>
        counter.line_count = NaiveLines(counter.file) - HeaderLine

\* C14 amended: for every file and every buffer size fast_line_count returns
\* the naive line count, less one when the last line has no newline, less
\* one with has_header; the result does not depend on the buffer size
C14_CountsNewlines ==
    counter.pc = "done" =>
        /\ counter.line_count =
              NaiveLines(counter.file)
                - (IF Unterminated(counter.file) THEN 1 ELSE 0) - HeaderLine
        /\ counter.line_count =
              ReadLoop(counter.file, 0, counter.bufsize) - HeaderLine
        /\ counter.line_count =
              ReadLoop(counter.file, 0, Len(counter.file) + 1) - HeaderLine

\* a file with two trailing newlines was counted across buffer boundaries
C14_Witness ==
    /\ counter.pc = "done"
    /\ counter.file = << "x", "\n", "\n" >>
    /\ counter.bufsize = 2
    /\ ~counter.has_header
    /\ counter.line_count = 2

\* ------------------------------------------------------------- the cursors
\* a sampled row is being processed
InRow == pc \in {"upw", "pmc", "pmc_except"}

\* the row at the current ordinal is the next element of the selection
IsNextSample ==
    /\ position >= 1
    /\ sample_position < samplesize
    /\ position = selection[sample_position + 1]

\* the loop takes a row from the reader and enters its body
RowFetched == pc = "loop" /\ reader' = reader + 1 /\ pc' # "post"

\* the processing of a row ends and the loop goes on
RowEnds == pc' = "loop" /\ (InRow \/ (pc = "loop" /\ count' # count))

\* C15: a row is examined (total incremented, a lookup issued, a sink
\* written) only when its ordinal is the next unconsumed element of the
\* selection; such rows are processed once each, in ascending order, and the
\* end of a row on any branch advances both cursors by one; the header and
\* a row out of the selection change the row ordinal alone
C15_Lockstep ==
    /\ [](\A i, j \in 1 .. Len(selection) : i < j => selection[i] < selection[j])
    /\ [](InRow => (IsNextSample /\ count.total = sample_position + 1))
    /\ [](pc = "loop" => count.total = sample_position)
    /\ [][ /\ RowFetched =>
                IF IsNextSample
                THEN /\ count'.total = count.total + 1
                     /\ (pc' = "loop") => Advanced
                     /\ (pc' # "loop") => UNCHANGED << position, sample_position >>
                ELSE /\ position' = position + 1
                     /\ UNCHANGED << pc, sample_position, count, row, calls,
                                     respVars, sinkVars >>
           /\ ((pc = "loop" \/ InRow)
                 /\ (count' # count \/ calls' # calls \/ sinkVars' # sinkVars)) =>
                IsNextSample
           /\ RowEnds => Advanced
           /\ (InRow /\ pc' # "loop") =>
                UNCHANGED << position, sample_position, count.total >> ]_vars

\* the first data row was skipped and the second, the only one selected,
\* has been processed
C15_Witness ==
    /\ pc = "loop"
    /\ samplesize = 1
    /\ selection = << 2 >>
    /\ position = 3
    /\ sample_position = 1
    /\ count.total = 1

\* C16: once sample_position equals the clamped sample size, no row is
\* examined, no lookup is issued and no counter or sink changes, whatever
\* rows remain; sample_position never exceeds the sample size and the
\* selection is never indexed at or beyond it; with a sample size of 0 the
\* row ordinal stays 0
C16_EarlyStop ==
    /\ [](Selected => sample_position <= samplesize)
    /\ [](InRow => (sample_position < samplesize
                      /\ sample_position + 1 \in DOMAIN selection))
    /\ []((Selected /\ samplesize = 0) => (position = 0 /\ count = ZeroCount))
    /\ [][ (pc = "loop" /\ sample_position = samplesize) =>
              /\ pc' = "post"
              /\ UNCHANGED << position, sample_position, count, row, calls,
                              respVars, sinkVars >> ]_vars

\* the loop was left with the selection consumed and a row still unread
C16_Witness ==
    /\ pc = "post"
    /\ samplesize = 1
    /\ sample_position = 1
    /\ position = 2
    /\ reader = 3
    /\ NumRows(file) = 4
    /\ count.total = 1

\* a step that sends the row down the fallback: the doi is empty, or the
\* metadata lookup returned an empty record
Fallback ==
    \/ RowFetched /\ IsNextSample /\ row'.doi = ""
    \/ UpwReturns /\ jsondata' = {}

\* C17: a sampled row with an empty doi, or with an empty metadata record,
\* is routed by its pmid alone: with an empty pmid it is discarded and no
\* PDF-location lookup is made, whatever its pmcid; otherwise one
\* PDF-location lookup keyed by the pmcid is made, and only after the
\* metadata lookup of the row, if any, has returned
C17_FallbackRouting ==
    /\ [](calls.pmc <= 1)
    /\ [](pc = "upw" => (calls.pmc = 0 /\ row.doi # ""))
    /\ []((pc \in {"pmc", "pmc_except"}) =>
              /\ calls.pmc = 1
              /\ calls.key = row.pmcid
              /\ row.pmid # ""
              /\ \/ row.doi = "" /\ calls.upw = 0
                 \/ row.doi # "" /\ calls.upw = 1 /\ jsondata = {})
    /\ [][ /\ Fallback =>
                IF row'.pmid = ""
                THEN /\ count'.discard = count.discard + 1
                     /\ calls'.pmc = 0
                     /\ UNCHANGED sinkVars
                     /\ Advanced
                ELSE /\ pc' = "pmc"
                     /\ calls'.pmc = 1
                     /\ calls'.key = row'.pmcid
                     /\ UNCHANGED << position, sample_position, sinkVars >>
           /\ (calls'.pmc = 1 /\ calls.pmc = 0) => Fallback ]_vars

\* the PDF-location lookup of a row with a doi, after an empty record
C17_Witness ==
    /\ pc = "pmc"
    /\ row = [pmid |-> "123", pmcid |-> "PMC1", doi |-> "10.1/a"]
    /\ jsondata = {}
    /\ calls = [upw |-> 1, pmc |-> 1, attempts |-> 1, key |-> "PMC1"]

\* C18: upw_request issues one request and does not retry; a transport
\* failure of that request is caught nowhere and aborts the run while the
\* row is being processed
C18_UpwFailureFatal ==
    /\ [](pc = "upw" =>
             /\ calls.upw = 1 /\ calls.attempts = 0
             /\ ENABLED (UpwRaise /\ err' = "MaxRetryError"))
    /\ [][ (pc = "upw") =>
              /\ pc' # "upw"
              /\ calls'.upw = 1
              /\ (err' = "MaxRetryError") =>
                   /\ pc' = "aborted"
                   /\ handles' = {}
                   /\ UNCHANGED << driverVars, position, sample_position,
                                   count, sinkVars >> ]_vars
    /\ []((err = "MaxRetryError") =>
             /\ pc = "aborted"
             /\ IsNextSample
             /\ count.total = Buckets(count) + 1
             /\ Len(report) = 1 + (y - StartYear)
             /\ ~ENABLED Next)

\* the run was aborted by the transport failure of its second metadata
\* request
C18_Witness ==
    /\ pc = "aborted"
    /\ err = "MaxRetryError"
    /\ calls = [NoCalls EXCEPT !.upw = 1]
    /\ count.total = 2
    /\ Buckets(count) = 1

\* the data rows the reader yields after the header
DataRows(f) == IF NumRows(f) = 0 THEN 0 ELSE NumRows(f) - 1

\* the elements of the selection that are ordinals of a data row
InReach == { i \in 1 .. Len(selection) : selection[i] <= DataRows(file) }

\* C19: at the end of a run that completes, total is the number of selected
\* positions that are at most the number of data rows; each of them was
\* processed, the row ordinal never overtaking the next unconsumed
\* position, and the selected positions beyond the last row are left
\* unprocessed
C19_ProcessedRows ==
    /\ (pc \in {"loop", "upw", "pmc", "pmc_except"}) =>
          /\ \A i \in 1 .. Len(selection) :
                IF i <= sample_position THEN selection[i] < position
                ELSE selection[i] >= position
          /\ position <= DataRows(file) + 1
    /\ (pc = "post" \/ Completed) =>
          /\ count.total = Cardinality(InReach)
          /\ sample_position = count.total
          /\ \A i \in 1 .. Len(selection) :
                (i <= sample_position) <=> (i \in InReach)

\* a run has completed with one selected position processed and another
\* beyond the last row
C19_Witness ==
    /\ pc = "post"
    /\ DataRows(file) = 3
    /\ selection = << 3, 4 >>
    /\ count.total = 1
    /\ sample_position = 1

====
